---- MODULE Spec2Model ----
(***************************************************************************)
(* Library catalogue API: the write paths of the book and category         *)
(* controllers over the two MongoDB collections, one request handler per   *)
(* request slot, each handler advancing one `await` at a time.             *)
(*                                                                         *)
(* A document is a record; a collection is a function from the ids that    *)
(* are stored to their documents.  A payload is a record whose domain is   *)
(* the set of fields the client sent (after the Joi validator).            *)
(***************************************************************************)
EXTENDS Integers, Sequences, FiniteSets, TLC

VARIABLES
    categories,   \* the category collection: id -> [name, isActive]
    books,        \* the book collection: id -> [isbn, category, stock, status]
    nextCategory, \* ids handed out so far to categories (ObjectIds are never reused)
    nextBook,     \* ids handed out so far to books
    req,          \* per request slot: the handler running there and its locals
    sent          \* requests started so far

vars == <<categories, books, nextCategory, nextBook, req, sent>>

----------------------------------------------------------------------------
(* Bounds of the model *)

MaxCategories == 2
MaxBooks == 2
MaxRequests == 2
MaxStock == 11
NumSlots == 2

Slots == 1..NumSlots
CategoryIds == 1..MaxCategories
BookIds == 1..MaxBooks

----------------------------------------------------------------------------
(* Category names: sequences of characters *)

UpperOf == [c \in {"a", "b", "A", "B", "+"} |->
              CASE c = "a" -> "A" [] c = "b" -> "B" [] OTHER -> c]
LowerOf == [c \in {"a", "b", "A", "B", "+"} |->
              CASE c = "A" -> "a" [] c = "B" -> "b" [] OTHER -> c]

toUpperCase(s) == [i \in 1..Len(s) |-> UpperOf[s[i]]]
toLowerCase(s) == [i \in 1..Len(s) |-> LowerOf[s[i]]]

\* two names equal ignoring case
EqualIgnoringCase(s, t) == toLowerCase(s) = toLowerCase(t)

\* name.charAt(0).toUpperCase() + name.slice(1).toLowerCase()
TitleCase(name) ==
    IF name = <<>> THEN name
    ELSE toUpperCase(SubSeq(name, 1, 1)) \o toLowerCase(SubSeq(name, 2, Len(name)))

\* The pattern text handed to $regex is the raw name between ^ and $: a "+"
\* in it is a quantifier, not a character.  A quantifier with nothing to
\* repeat makes the pattern invalid and the query fail.
RECURSIVE RegexValid(_)
RegexValid(pat) ==
    IF pat = <<>> THEN TRUE
    ELSE /\ pat[1] # "+"
         /\ LET q == IF Len(pat) >= 3 /\ pat[2] = "+" /\ pat[3] = "+" THEN 2
                     ELSE IF Len(pat) >= 2 /\ pat[2] = "+" THEN 1
                     ELSE 0
            IN RegexValid(SubSeq(pat, q + 2, Len(pat)))

\* number of leading characters of s equal to c ignoring case
RECURSIVE LeadingRun(_, _)
LeadingRun(c, s) ==
    IF s # <<>> /\ LowerOf[s[1]] = LowerOf[c] THEN 1 + LeadingRun(c, Tail(s)) ELSE 0

\* does ^pat$ with option i match s: x is the letter x, x+ is one or more x
\* (greedy), x++ is one or more x (possessive)
RECURSIVE RegexMatch(_, _)
RegexMatch(pat, s) ==
    IF pat = <<>> THEN s = <<>>
    ELSE LET c == pat[1]
             run == LeadingRun(c, s)
         IN IF Len(pat) >= 3 /\ pat[2] = "+" /\ pat[3] = "+"
            THEN run >= 1 /\ RegexMatch(SubSeq(pat, 4, Len(pat)), SubSeq(s, run + 1, Len(s)))
            ELSE IF Len(pat) >= 2 /\ pat[2] = "+"
            THEN \E k \in 1..run :
                    RegexMatch(SubSeq(pat, 3, Len(pat)), SubSeq(s, k + 1, Len(s)))
            ELSE run >= 1 /\ RegexMatch(Tail(pat), Tail(s))

----------------------------------------------------------------------------
(* Documents, payloads and the request slot *)

NoDoc == [missing |-> TRUE]        \* what findById / findOne give for no match
NoData == [empty |-> TRUE]

\* op, pc: the handler and the await it stands at; id, data: req.params.id and
\* req.body; doc: the document the handler loaded; delta: the paths of doc that
\* a save() writes; count: booksCount; newStock: stockChange.newStock;
\* status, msg, field: the response sent (status 0: none); err: the statusCode
\* of an error thrown out of the handler
\* sends: how many times the request's handlers have called res.json;
\* param, raw: the path parameter and the payload as the client sent them;
\* errors: the failures a 400 of a validator lists
Idle == [op |-> "idle", pc |-> "idle", id |-> 0, data |-> NoData,
         doc |-> NoDoc, delta |-> NoData, count |-> 0, newStock |-> 0,
         status |-> 0, msg |-> "", field |-> "", err |-> 0,
         param |-> <<>>, raw |-> NoData, errors |-> <<>>, sends |-> 0]

Has(data, field) == field \in DOMAIN data

\* $set of the payload's fields on a stored document
ApplySet(doc, data) ==
    [f \in DOMAIN doc |-> IF f \in DOMAIN data THEN data[f] ELSE doc[f]]

\* an ObjectId in a payload is the text of its 24 hex characters, which the
\* validators accept in either case; toString() of a stored id prints the
\* lower case text, and the store casts either text to the same id
ObjectIdText(id, upper) == [id |-> id, upper |-> upper]

toString(id) == ObjectIdText(id, FALSE)

CastObjectId(text) == text.id

\* the update document as the store casts it to the schema of the book
CastUpdate(data) ==
    [f \in DOMAIN data |-> IF f = "category" THEN CastObjectId(data[f]) ELSE data[f]]

Without(coll, id) == [x \in DOMAIN coll \ {id} |-> coll[x]]

\* the slot of a handler that has ended with this response; its locals are gone
Response(p, status, msg) ==
    [Idle EXCEPT !.op = req[p].op, !.pc = "done", !.id = req[p].id,
                 !.status = status, !.msg = msg, !.sends = 1]

Respond(p, status, msg) == req' = [req EXCEPT ![p] = Response(p, status, msg)]

Goto(p, pc) == req' = [req EXCEPT ![p].pc = pc]

\* the message of the DocumentNotFoundError that save() and deleteOne() raise
\* when the document they write is no longer in the collection
DocumentNotFound == "No document found"

\* process.env.NODE_ENV of the deployment
NODE_ENV == "production"

\* the answer of errorHandler to an error that is none of the store's
\* ValidationError, duplicate key or CastError: an error made by createError
\* carries a statusCode and is answered with it and with its own message; any
\* other error is answered 500, in production with a fixed message
ErrorHandler(p, statusCode, message) ==
    IF statusCode # 0
    THEN [Response(p, statusCode, message) EXCEPT !.err = statusCode]
    ELSE Response(p, 500, IF NODE_ENV = "production"
                          THEN "Error interno del servidor" ELSE message)

\* the handler in slot p, an async function that no asyncHandler wraps, throws
\* createError(msg, statusCode): its promise is rejected.  A router that passes
\* rejections to next(err) (Express 5) reaches errorHandler, which answers
\* err.statusCode with err.message; a router that drops the returned promise
\* (Express 4) leaves the rejection unhandled and the request without answer
Throw(p, statusCode, msg) ==
    \E forwarded \in BOOLEAN :
        req' = [req EXCEPT ![p] =
                  IF forwarded
                  THEN ErrorHandler(p, statusCode, msg)
                  ELSE [Idle EXCEPT !.op = req[p].op, !.pc = "unanswered",
                                    !.id = req[p].id, !.err = statusCode,
                                    !.msg = msg]]

Running(p) == req[p].pc \notin {"idle", "done", "unanswered"}

\* creations in flight, which will each need a fresh id
Creating(op) == Cardinality({p \in Slots : Running(p) /\ req[p].op = op})

----------------------------------------------------------------------------
(* The category collection *)

CategoryFindById(id) == IF id \in DOMAIN categories THEN categories[id] ELSE NoDoc

\* Category.findOne({ name: { $regex: `^${name}$`, $options: 'i' }, _id: { $ne: id } })
\* (id 0: no exclusion)
CategoryFindOneByName(name, id) ==
    {c \in DOMAIN categories \ {id} : RegexMatch(name, categories[c].name)}

\* the unique index on name compares the stored strings exactly
CategoryNameIndexRejects(name, id) ==
    \E c \in DOMAIN categories \ {id} : categories[c].name = name

\* categorySchema.pre('save'): a new document has its name modified
CategoryPreSave(doc) == [doc EXCEPT !.name = TitleCase(doc.name)]

\* schema defaults of a new category document
NewCategory(data) ==
    [name |-> data.name, isActive |-> IF Has(data, "isActive") THEN data.isActive ELSE TRUE]

(* createCategory *)

CreateCategoryFindOne(p) ==
    /\ req[p].op = "createCategory" /\ req[p].pc = "findOne"
    /\ IF ~RegexValid(req[p].data.name)
       THEN Respond(p, 500, "Error interno del servidor al crear categoria")
       ELSE IF CategoryFindOneByName(req[p].data.name, 0) # {}
       THEN Respond(p, 409, "Ya existe una categoria con ese nombre")
       ELSE Goto(p, "create")
    /\ UNCHANGED <<categories, books, nextCategory, nextBook, sent>>

CreateCategoryCreate(p) ==
    /\ req[p].op = "createCategory" /\ req[p].pc = "create"
    /\ LET doc == CategoryPreSave(NewCategory(req[p].data))
           id == nextCategory + 1
       IN IF CategoryNameIndexRejects(doc.name, 0)
          THEN /\ Respond(p, 409, "Ya existe una categoria con ese nombre")
               /\ UNCHANGED <<categories, nextCategory>>
          ELSE /\ categories' = categories @@ (id :> doc)
               /\ nextCategory' = id
               /\ req' = [req EXCEPT ![p] =
                            [Response(p, 201, "Categoria creada exitosamente")
                                EXCEPT !.id = id]]
    /\ UNCHANGED <<books, nextBook, sent>>

(* updateCategory *)

UpdateCategoryFindById(p) ==
    /\ req[p].op = "updateCategory" /\ req[p].pc = "findById"
    /\ LET category == CategoryFindById(req[p].id)
       IN IF category = NoDoc
          THEN Respond(p, 404, "Categoria no encontrada")
          ELSE req' = [req EXCEPT ![p].doc = category,
                         ![p].pc = IF Has(req[p].data, "name")
                                      /\ req[p].data.name # category.name
                                   THEN "findOne" ELSE "update"]
    /\ UNCHANGED <<categories, books, nextCategory, nextBook, sent>>

UpdateCategoryFindOne(p) ==
    /\ req[p].op = "updateCategory" /\ req[p].pc = "findOne"
    /\ IF ~RegexValid(req[p].data.name)
       THEN Respond(p, 500, "Error de base de datos")
       ELSE IF CategoryFindOneByName(req[p].data.name, req[p].id) # {}
       THEN Respond(p, 409, "Ya existe una categoria con ese nombre")
       ELSE Goto(p, "update")
    /\ UNCHANGED <<categories, books, nextCategory, nextBook, sent>>

\* Category.findByIdAndUpdate(id, updateData, { new: true, runValidators: true }):
\* no save hook runs; a missing document gives null and the handler answers 200
UpdateCategoryUpdate(p) ==
    /\ req[p].op = "updateCategory" /\ req[p].pc = "update"
    /\ LET id == req[p].id
           data == req[p].data
       IN IF id \notin DOMAIN categories
          THEN /\ Respond(p, 200, "Categoria actualizada exitosamente")
               /\ UNCHANGED categories
          ELSE IF Has(data, "name") /\ CategoryNameIndexRejects(data.name, id)
          THEN /\ req' = [req EXCEPT ![p] =
                            [Response(p, 409, "Ya existe un registro con name")
                                EXCEPT !.field = "name"]]
               /\ UNCHANGED categories
          ELSE /\ categories' = [categories EXCEPT ![id] = ApplySet(@, data)]
               /\ Respond(p, 200, "Categoria actualizada exitosamente")
    /\ UNCHANGED <<books, nextCategory, nextBook, sent>>

(* deleteCategory *)

DeleteCategoryFindById(p) ==
    /\ req[p].op = "deleteCategory" /\ req[p].pc = "findById"
    /\ LET category == CategoryFindById(req[p].id)
       IN IF category = NoDoc
          THEN Respond(p, 404, "Categoria no encontrada")
          ELSE req' = [req EXCEPT ![p].doc = category, ![p].pc = "countDocuments"]
    /\ UNCHANGED <<categories, books, nextCategory, nextBook, sent>>

\* a count that sees no book
NoBooksCounted(id) == 0

\* Book.countDocuments({ category: id })
BookCountByCategory(id) == Cardinality({b \in DOMAIN books : books[b].category = id})

DeleteCategoryCount(p) ==
    /\ req[p].op = "deleteCategory" /\ req[p].pc = "countDocuments"
    /\ req' = [req EXCEPT ![p].count = BookCountByCategory(req[p].id),
                          ![p].pc = "apply"]
    /\ UNCHANGED <<categories, books, nextCategory, nextBook, sent>>

\* a deleteCategory that removes the category whatever the count
DeleteCategoryAlwaysRemoves(p) ==
    /\ req[p].op = "deleteCategory" /\ req[p].pc = "apply"
    /\ categories' = Without(categories, req[p].id)
    /\ Respond(p, 200, "Categoria eliminada exitosamente")
    /\ UNCHANGED <<books, nextCategory, nextBook, sent>>

\* a deleteCategory that also removes the books of the category
DeleteCategoryCascades(p) ==
    /\ req[p].op = "deleteCategory" /\ req[p].pc = "apply"
    /\ LET id == req[p].id
       IN /\ categories' = Without(categories, id)
          /\ books' = [b \in {x \in DOMAIN books : books[x].category # id} |-> books[b]]
          /\ Respond(p, 200, "Categoria eliminada exitosamente")
    /\ UNCHANGED <<nextCategory, nextBook, sent>>

\* category.save() of a loaded document: writes the paths that changed, and
\* fails with DocumentNotFoundError when the document is gone
DeleteCategoryApply(p) ==
    /\ req[p].op = "deleteCategory" /\ req[p].pc = "apply"
    /\ LET id == req[p].id
       IN IF req[p].count > 0
          THEN IF id \notin DOMAIN categories
               THEN /\ req' = [req EXCEPT ![p] = ErrorHandler(p, 0, DocumentNotFound)]
                    /\ UNCHANGED categories
               ELSE /\ categories' = IF req[p].doc.isActive
                                      THEN [categories EXCEPT ![id].isActive = FALSE]
                                      ELSE categories
                    /\ req' = [req EXCEPT ![p] =
                                 [Response(p, 200, "Categoria desactivada")
                                     EXCEPT !.count = req[p].count]]
          ELSE /\ categories' = Without(categories, id)
               /\ Respond(p, 200, "Categoria eliminada exitosamente")
    /\ UNCHANGED <<books, nextCategory, nextBook, sent>>

(* toggleCategoryStatus *)

\* a toggleCategoryStatus that sets isActive to false whatever it was
ToggleCategoryDeactivates(p) ==
    /\ req[p].op = "toggleCategoryStatus" /\ req[p].pc = "findById"
    /\ LET category == CategoryFindById(req[p].id)
       IN IF category = NoDoc
          THEN Respond(p, 404, "Categoria no encontrada")
          ELSE req' = [req EXCEPT ![p].doc = [category EXCEPT !.isActive = FALSE],
                                  ![p].pc = "save"]
    /\ UNCHANGED <<categories, books, nextCategory, nextBook, sent>>

ToggleCategoryFindById(p) ==
    /\ req[p].op = "toggleCategoryStatus" /\ req[p].pc = "findById"
    /\ LET category == CategoryFindById(req[p].id)
       IN IF category = NoDoc
          THEN Respond(p, 404, "Categoria no encontrada")
          ELSE req' = [req EXCEPT ![p].doc = [category EXCEPT !.isActive = ~category.isActive],
                                  ![p].pc = "save"]
    /\ UNCHANGED <<categories, books, nextCategory, nextBook, sent>>

ToggleCategorySave(p) ==
    /\ req[p].op = "toggleCategoryStatus" /\ req[p].pc = "save"
    /\ LET id == req[p].id
       IN IF id \notin DOMAIN categories
          THEN /\ req' = [req EXCEPT ![p] = ErrorHandler(p, 0, DocumentNotFound)]
               /\ UNCHANGED categories
          ELSE /\ categories' = [categories EXCEPT ![id].isActive = req[p].doc.isActive]
               /\ Respond(p, 200, IF req[p].doc.isActive THEN "Categoria activada exitosamente"
                                  ELSE "Categoria desactivada exitosamente")
    /\ UNCHANGED <<books, nextCategory, nextBook, sent>>

\* getCategoryById: the status a fetch of this id is answered with
GetCategoryByIdStatus(id) == IF CategoryFindById(id) = NoDoc THEN 404 ELSE 200

----------------------------------------------------------------------------
(* The book collection *)

BookFindById(id) == IF id \in DOMAIN books THEN books[id] ELSE NoDoc

\* Book.findOne({ isbn, _id: { $ne: id } })   (id 0: no exclusion)
BookFindOneByIsbn(isbn, id) == {b \in DOMAIN books \ {id} : books[b].isbn = isbn}

\* a store that has no index on isbn
NoIsbnIndex(isbn, id) == FALSE

\* the unique index on isbn
BookIsbnIndexRejects(isbn, id) == \E b \in DOMAIN books \ {id} : books[b].isbn = isbn

\* bookSchema.pre('save'), the stock/status part
BookPreSave(doc, stockModified) ==
    IF ~stockModified THEN doc
    ELSE IF doc.stock = 0 /\ doc.status = "disponible" THEN [doc EXCEPT !.status = "agotado"]
    ELSE IF doc.stock > 0 /\ doc.status = "agotado" THEN [doc EXCEPT !.status = "disponible"]
    ELSE doc

\* the new document of Book.create(bookData); the validator has filled in the
\* defaults of stock and status
NewBook(data) ==
    [isbn |-> data.isbn, category |-> CastObjectId(data.category),
     stock |-> data.stock, status |-> data.status]

(* createBook *)

\* a createBook that does not look at isActive
CreateBookFindCategoryAnyStatus(p) ==
    /\ req[p].op = "createBook" /\ req[p].pc = "findCategory"
    /\ IF CategoryFindById(CastObjectId(req[p].data.category)) = NoDoc
       THEN Respond(p, 400, "La categoria especificada no existe")
       ELSE Goto(p, "findOne")
    /\ UNCHANGED <<categories, books, nextCategory, nextBook, sent>>

CreateBookFindCategory(p) ==
    /\ req[p].op = "createBook" /\ req[p].pc = "findCategory"
    /\ LET category == CategoryFindById(CastObjectId(req[p].data.category))
       IN IF category = NoDoc
          THEN Respond(p, 400, "La categoria especificada no existe")
          ELSE IF ~category.isActive
          THEN Respond(p, 400, "La categoria especificada no esta activa")
          ELSE Goto(p, "findOne")
    /\ UNCHANGED <<categories, books, nextCategory, nextBook, sent>>

CreateBookFindOne(p) ==
    /\ req[p].op = "createBook" /\ req[p].pc = "findOne"
    /\ IF BookFindOneByIsbn(req[p].data.isbn, 0) # {}
       THEN Respond(p, 409, "Ya existe un libro con este ISBN")
       ELSE Goto(p, "create")
    /\ UNCHANGED <<categories, books, nextCategory, nextBook, sent>>

\* a Book.create on a collection without the index on isbn
CreateBookCreateUnindexed(p) ==
    /\ req[p].op = "createBook" /\ req[p].pc = "create"
    /\ books' = books @@ ((nextBook + 1) :> BookPreSave(NewBook(req[p].data), TRUE))
    /\ nextBook' = nextBook + 1
    /\ req' = [req EXCEPT ![p] =
                 [Response(p, 201, "Libro creado exitosamente")
                     EXCEPT !.id = nextBook + 1]]
    /\ UNCHANGED <<categories, nextCategory, sent>>

CreateBookCreate(p) ==
    /\ req[p].op = "createBook" /\ req[p].pc = "create"
    /\ LET doc == BookPreSave(NewBook(req[p].data), TRUE)
           id == nextBook + 1
       IN IF BookIsbnIndexRejects(doc.isbn, 0)
          THEN /\ req' = [req EXCEPT ![p] =
                            [Response(p, 409, "Ya existe un libro con este ISBN")
                                EXCEPT !.field = "isbn"]]
               /\ UNCHANGED <<books, nextBook>>
          ELSE /\ books' = books @@ (id :> doc)
               /\ nextBook' = id
               /\ req' = [req EXCEPT ![p] =
                            [Response(p, 201, "Libro creado exitosamente")
                                EXCEPT !.id = id]]
    /\ UNCHANGED <<categories, nextCategory, sent>>

(* updateBook *)

\* the await the handler reaches next, given the book it loaded
UpdateBookAfter(pc, data, book) ==
    IF pc = "findById" /\ Has(data, "category") /\ data.category # toString(book.category)
    THEN "findCategory"
    ELSE IF Has(data, "isbn") /\ data.isbn # book.isbn
    THEN "findOne"
    ELSE "update"

UpdateBookFindById(p) ==
    /\ req[p].op = "updateBook" /\ req[p].pc = "findById"
    /\ LET book == BookFindById(req[p].id)
       IN IF book = NoDoc
          THEN Respond(p, 404, "Libro no encontrado")
          ELSE req' = [req EXCEPT ![p].doc = book,
                                  ![p].pc = UpdateBookAfter("findById", req[p].data, book)]
    /\ UNCHANGED <<categories, books, nextCategory, nextBook, sent>>

UpdateBookFindCategory(p) ==
    /\ req[p].op = "updateBook" /\ req[p].pc = "findCategory"
    /\ LET category == CategoryFindById(CastObjectId(req[p].data.category))
       IN IF category = NoDoc
          THEN Respond(p, 400, "La categoria especificada no existe")
          ELSE IF ~category.isActive
          THEN Respond(p, 400, "La categoria especificada no esta activa")
          ELSE Goto(p, UpdateBookAfter("findCategory", req[p].data, req[p].doc))
    /\ UNCHANGED <<categories, books, nextCategory, nextBook, sent>>

UpdateBookFindOne(p) ==
    /\ req[p].op = "updateBook" /\ req[p].pc = "findOne"
    /\ IF BookFindOneByIsbn(req[p].data.isbn, req[p].id) # {}
       THEN Respond(p, 409, "Ya existe un libro con este ISBN")
       ELSE Goto(p, "update")
    /\ UNCHANGED <<categories, books, nextCategory, nextBook, sent>>

\* Book.findByIdAndUpdate(id, updateData, { new: true, runValidators: true }):
\* no save hook runs; a missing document gives null and the handler answers
\* 200; a duplicate-key error reaches the catch, which knows only CastError
\* and ValidationError
UpdateBookUpdate(p) ==
    /\ req[p].op = "updateBook" /\ req[p].pc = "update"
    /\ LET id == req[p].id
           data == req[p].data
       IN IF id \notin DOMAIN books
          THEN /\ Respond(p, 200, "Libro actualizado exitosamente")
               /\ UNCHANGED books
          ELSE IF Has(data, "isbn") /\ BookIsbnIndexRejects(data.isbn, id)
          THEN /\ Respond(p, 500, "Error al actualizar libro")
               /\ UNCHANGED books
          ELSE /\ books' = [books EXCEPT ![id] = ApplySet(@, CastUpdate(data))]
               /\ Respond(p, 200, "Libro actualizado exitosamente")
    /\ UNCHANGED <<categories, nextCategory, nextBook, sent>>

(* deleteBook *)

DeleteBookFindById(p) ==
    /\ req[p].op = "deleteBook" /\ req[p].pc = "findById"
    /\ LET book == BookFindById(req[p].id)
       IN IF book = NoDoc
          THEN Respond(p, 404, "Libro no encontrado")
          ELSE req' = [req EXCEPT ![p].doc = book, ![p].pc = "delete"]
    /\ UNCHANGED <<categories, books, nextCategory, nextBook, sent>>

DeleteBookDelete(p) ==
    /\ req[p].op = "deleteBook" /\ req[p].pc = "delete"
    /\ books' = Without(books, req[p].id)
    /\ Respond(p, 200, "Libro eliminado exitosamente")
    /\ UNCHANGED <<categories, nextCategory, nextBook, sent>>

(* updateBookStock *)

\* the paths of the loaded document that differ from what was loaded
ModifiedPaths(loaded, doc) ==
    [f \in {g \in DOMAIN doc : doc[g] # loaded[g]} |-> doc[f]]

\* req.body.quantity is what the client sent: the route validates a converted
\* copy and hands on the original, so it is the number n (str = FALSE) or the
\* decimal text of n (str = TRUE)
RECURSIVE Digits(_)
Digits(n) == IF n < 10 THEN 1 ELSE 1 + Digits(n \div 10)

RECURSIVE Pow10(_)
Pow10(k) == IF k = 0 THEN 1 ELSE 10 * Pow10(k - 1)

\* this.stock += quantity, then the cast of the path to Number: with a text
\* operand + concatenates the decimal texts
PlusAssign(stock, quantity) ==
    IF quantity.str THEN stock * Pow10(Digits(quantity.n)) + quantity.n
    ELSE stock + quantity.n

\* addStock / reduceStock / book.stock = quantity on the loaded document
\* (reduceStock is called only with stock >= quantity, see below; >= and -=
\* convert a text operand to its number)
StockAfter(stock, operation, quantity) ==
    CASE operation = "add" -> PlusAssign(stock, quantity)
      [] operation = "reduce" -> stock - quantity.n
      [] operation = "set" -> quantity.n

\* an updateBookStock whose reduce does not compare the stock with the quantity
UpdateBookStockUnchecked(p) ==
    /\ req[p].op = "updateBookStock" /\ req[p].pc = "findById"
    /\ LET book == BookFindById(req[p].id)
       IN IF book = NoDoc
          THEN Throw(p, 404, "Libro no encontrado")
          ELSE LET stock == StockAfter(book.stock, req[p].data.operation,
                                       req[p].data.quantity)
                   doc == BookPreSave([book EXCEPT !.stock = stock], stock # book.stock)
               IN /\ stock <= MaxStock
                  /\ req' = [req EXCEPT ![p].doc = doc,
                                        ![p].delta = ModifiedPaths(book, doc),
                                        ![p].pc = "save"]
    /\ UNCHANGED <<categories, books, nextCategory, nextBook, sent>>

UpdateBookStockFindById(p) ==
    /\ req[p].op = "updateBookStock" /\ req[p].pc = "findById"
    /\ LET book == BookFindById(req[p].id)
           operation == req[p].data.operation
           quantity == req[p].data.quantity
       IN IF book = NoDoc
          THEN Throw(p, 404, "Libro no encontrado")
          ELSE IF operation = "reduce" /\ ~(book.stock >= quantity.n)
          THEN Throw(p, 400, "Stock insuficiente")
          ELSE LET stock == StockAfter(book.stock, operation, quantity)
                   doc == BookPreSave([book EXCEPT !.stock = stock], stock # book.stock)
               IN /\ stock <= MaxStock
                  /\ req' = [req EXCEPT ![p].doc = doc,
                                        ![p].delta = ModifiedPaths(book, doc),
                                        ![p].pc = "save"]
    /\ UNCHANGED <<categories, books, nextCategory, nextBook, sent>>

\* a save whose reduce is one conditional decrement in the store instead of
\* the write of the stock computed from the loaded document
UpdateBookStockSaveAtomic(p) ==
    /\ req[p].op = "updateBookStock" /\ req[p].pc = "save"
    /\ LET id == req[p].id
           data == req[p].data
       IN IF id \notin DOMAIN books
          THEN /\ Throw(p, 400, DocumentNotFound)
               /\ UNCHANGED books
          ELSE IF data.operation # "reduce"
          THEN /\ books' = [books EXCEPT ![id] = ApplySet(@, req[p].delta)]
               /\ Goto(p, "reload")
          ELSE IF books[id].stock >= data.quantity.n
          THEN /\ books' = [books EXCEPT ![id] =
                              BookPreSave([@ EXCEPT !.stock = @ - data.quantity.n], TRUE)]
               /\ Goto(p, "reload")
          ELSE /\ Throw(p, 400, "Stock insuficiente")
               /\ UNCHANGED books
    /\ UNCHANGED <<categories, nextCategory, nextBook, sent>>

\* book.save(): writes the modified paths; DocumentNotFoundError when the
\* book is gone, rethrown by the catch as createError(error.message, 400)
UpdateBookStockSave(p) ==
    /\ req[p].op = "updateBookStock" /\ req[p].pc = "save"
    /\ LET id == req[p].id
       IN IF id \notin DOMAIN books
          THEN /\ Throw(p, 400, DocumentNotFound)
               /\ UNCHANGED books
          ELSE /\ books' = [books EXCEPT ![id] = ApplySet(@, req[p].delta)]
               /\ Goto(p, "reload")
    /\ UNCHANGED <<categories, nextCategory, nextBook, sent>>

\* the second Book.findById(id): newStock is read from the store again, and
\* the answer's stockChange repeats the operation and the quantity asked
UpdateBookStockReload(p) ==
    /\ req[p].op = "updateBookStock" /\ req[p].pc = "reload"
    /\ LET updatedBook == BookFindById(req[p].id)
       IN IF updatedBook = NoDoc
          THEN Throw(p, 400, "Cannot read properties of null")
          ELSE req' = [req EXCEPT ![p] =
                         [Response(p, 200, "Stock actualizado exitosamente")
                             EXCEPT !.newStock = updatedBook.stock,
                                    !.data = req[p].data]]
    /\ UNCHANGED <<categories, books, nextCategory, nextBook, sent>>

(* getBooks, getBooksByCategory *)

\* getBooks after its await of Book.find and Book.countDocuments: the try
\* block calls res.status(200).json twice; the second call throws (the headers
\* are sent), the catch calls res.status(500).json, which throws again out of
\* the handler; a router that forwards the rejection has errorHandler call
\* res.json once more.  The client keeps the first answer
GetBooksFind(p) ==
    /\ req[p].op = "getBooks" /\ req[p].pc = "find"
    /\ \E forwarded \in BOOLEAN :
          req' = [req EXCEPT ![p] =
                    [Response(p, 200, "Libros obtenidos exitosamente")
                        EXCEPT !.sends = IF forwarded THEN 4 ELSE 3]]
    /\ UNCHANGED <<categories, books, nextCategory, nextBook, sent>>

\* getBooksByCategory: the 404 is thrown inside the try; the catch binds no
\* parameter and reads the name error, so it throws a ReferenceError out of
\* the handler before its res.status(500)
GetBooksByCategoryFindById(p) ==
    /\ req[p].op = "getBooksByCategory" /\ req[p].pc = "findById"
    /\ IF CategoryFindById(req[p].id) = NoDoc
       THEN Throw(p, 0, "error is not defined")
       ELSE Goto(p, "findByCategory")
    /\ UNCHANGED <<categories, books, nextCategory, nextBook, sent>>

\* Book.findByCategory(categoryId) and the 200 with the books and their count
GetBooksByCategoryFind(p) ==
    /\ req[p].op = "getBooksByCategory" /\ req[p].pc = "findByCategory"
    /\ req' = [req EXCEPT ![p] =
                 [Response(p, 200, "Libros de la categoria obtenidos exitosamente")
                     EXCEPT !.count = BookCountByCategory(req[p].id)]]
    /\ UNCHANGED <<categories, books, nextCategory, nextBook, sent>>

----------------------------------------------------------------------------
(* Requests: what the routes hand to the controllers *)

NameInputs == {<<"a", "b">>, <<"A", "b">>, <<"A", "B">>, <<"b", "a">>, <<"a", "+">>}
IsbnInputs == {"9781451648539", "123456789X"}
\* category ids as a client that copies them from an answer writes them
CategoryTexts == {toString(id) : id \in CategoryIds}
StatusInputs == {"disponible", "agotado", "descontinuado"}
StockInputs == {0, 1}
QuantityInputs == [str : {FALSE}, n : {0, 1, 2}] \cup [str : {TRUE}, n : {1}]
OperationInputs == {"add", "reduce", "set"}

\* categoryValidationSchema.create / update, bookValidationSchema.create /
\* update and the stock schema: the payloads that pass, unknown keys stripped
CategoryCreateBodies == [name : NameInputs]
CategoryUpdateBodies == [name : NameInputs] \cup [isActive : BOOLEAN]
BookCreateBodies ==
    [isbn : IsbnInputs, category : CategoryTexts, stock : StockInputs, status : StatusInputs]
BookUpdateBodies ==
    [isbn : IsbnInputs] \cup [category : CategoryTexts] \cup [stock : StockInputs]
        \cup [status : StatusInputs] \cup [stock : StockInputs, status : StatusInputs]
StockBodies == [quantity : QuantityInputs, operation : OperationInputs]

Free(p) == ~Running(p) /\ sent < MaxRequests

Start(p, op, pc, id, data) ==
    /\ req' = [req EXCEPT ![p] = [Idle EXCEPT !.op = op, !.pc = pc, !.id = id, !.data = data]]
    /\ sent' = sent + 1
    /\ UNCHANGED <<categories, books, nextCategory, nextBook>>

\* router.post('/', validate(categoryValidationSchema.create), createCategory)
PostCategory(p, bodies) ==
    /\ Free(p)
    /\ nextCategory + Creating("createCategory") < MaxCategories
    /\ \E data \in bodies : Start(p, "createCategory", "findOne", 0, data)

PutCategory(p, bodies) ==
    /\ Free(p)
    /\ \E id \in CategoryIds, data \in bodies :
          Start(p, "updateCategory", "findById", id, data)

DeleteCategory(p) ==
    /\ Free(p)
    /\ \E id \in CategoryIds : Start(p, "deleteCategory", "findById", id, NoData)

PatchCategoryToggleStatus(p) ==
    /\ Free(p)
    /\ \E id \in CategoryIds : Start(p, "toggleCategoryStatus", "findById", id, NoData)

PostBook(p, bodies) ==
    /\ Free(p)
    /\ nextBook + Creating("createBook") < MaxBooks
    /\ \E data \in bodies : Start(p, "createBook", "findCategory", 0, data)

PutBook(p, bodies) ==
    /\ Free(p)
    /\ \E id \in BookIds, data \in bodies :
          Start(p, "updateBook", "findById", id, data)

DeleteBook(p) ==
    /\ Free(p)
    /\ \E id \in BookIds : Start(p, "deleteBook", "findById", id, NoData)

GetBooks(p) ==
    /\ Free(p)
    /\ Start(p, "getBooks", "find", 0, NoData)

GetBooksByCategory(p) ==
    /\ Free(p)
    /\ \E id \in CategoryIds : Start(p, "getBooksByCategory", "findById", id, NoData)

PatchBookStock(p, bodies) ==
    /\ Free(p)
    /\ \E id \in BookIds, data \in bodies :
          Start(p, "updateBookStock", "findById", id, data)

----------------------------------------------------------------------------
(* The middleware in front of the controllers.  A payload is a function from
   keys to JSON literals, written as text: 5 is the number, '5' the text. *)

Absent == "absent"

\* the fields each schema declares, in the order of declaration (of the book
\* schemas: the fields the controllers above read)
SchemaFields(schema) ==
    CASE schema = "categoryCreate" -> <<"name", "description", "isActive">>
      [] schema = "categoryUpdate" -> <<"name", "description", "isActive">>
      [] schema = "bookCreate" -> <<"isbn", "category", "stock", "status">>
      [] schema = "bookUpdate" -> <<"isbn", "category", "stock", "status">>
      [] schema = "stockOp" -> <<"quantity", "operation">>
      [] schema = "listQuery" -> <<"page", "limit", "status">>

Range(seq) == {seq[i] : i \in 1..Len(seq)}

\* .required()
RequiredFields(schema) ==
    CASE schema = "categoryCreate" -> {"name", "description"}
      [] schema = "bookCreate" -> {"isbn", "category"}
      [] schema = "stockOp" -> {"quantity", "operation"}
      [] OTHER -> {}

\* .default(..)
DefaultOf(schema, field) ==
    CASE schema = "bookCreate" /\ field = "stock" -> "0"
      [] schema = "bookCreate" /\ field = "status" -> "'disponible'"
      [] schema = "listQuery" /\ field = "page" -> "1"
      [] schema = "listQuery" /\ field = "limit" -> "10"
      [] OTHER -> Absent

\* literals a client may send for a key
Samples(field) ==
    CASE field = "name" -> {"'ab'", "' ab '", "'a'"}
      [] field = "description" -> {"'a shelf of books'", "'short'"}
      [] field = "isActive" -> {"true", "'yes'"}
      [] field = "isbn" -> {"'123456789X'", "'12345'"}
      [] field = "category" -> {"'64b7f0c2a1d3e4f5a6b7c8d9'", "'abc'"}
      [] field = "stock" -> {"0", "-1"}
      [] field = "status" -> {"'agotado'", "'vendido'"}
      [] field = "quantity" -> {"5", "'5'", "-1"}
      [] field = "operation" -> {"'add'", "'delete'"}
      [] field = "page" -> {"'2'", "'0'"}
      [] field = "limit" -> {"'10'", "'500'"}
      [] field = "foo" -> {"'bar'"}

\* the literals of Samples(field) that the field's rule accepts
\* (string().trim().min(2), number().integer().min(0) with conversion from
\* text, valid(..), pattern(..), boolean())
Accepted(field) ==
    CASE field = "name" -> {"'ab'", "' ab '"}
      [] field = "description" -> {"'a shelf of books'"}
      [] field = "isActive" -> {"true"}
      [] field = "isbn" -> {"'123456789X'"}
      [] field = "category" -> {"'64b7f0c2a1d3e4f5a6b7c8d9'"}
      [] field = "stock" -> {"0"}
      [] field = "status" -> {"'agotado'"}
      [] field = "quantity" -> {"5", "'5'"}
      [] field = "operation" -> {"'add'"}
      [] field = "page" -> {"'2'"}
      [] field = "limit" -> {"'10'"}
      [] OTHER -> {}

\* the value Joi returns for an accepted literal: text trimmed, numbers
\* converted from text
Converted(literal) ==
    CASE literal = "' ab '" -> "'ab'"
      [] literal = "'5'" -> "5"
      [] literal = "'2'" -> "2"
      [] literal = "'10'" -> "10"
      [] OTHER -> literal

\* does the payload break the rule of this declared field
FieldFails(schema, body, field) ==
    IF field \in DOMAIN body THEN body[field] \notin Accepted(field)
    ELSE field \in RequiredFields(schema)

\* schema.validate(body, { abortEarly, stripUnknown }): the declared fields
\* are checked in order, then the undeclared keys; error lists the keys that
\* failed, value is the converted payload
JoiValidate(schema, body, abortEarly, stripUnknown) ==
    LET declared == Range(SchemaFields(schema))
        unknown == DOMAIN body \ declared
        failing == SelectSeq(SchemaFields(schema),
                             LAMBDA f : FieldFails(schema, body, f))
                     \o (IF stripUnknown \/ "foo" \notin unknown THEN <<>> ELSE <<"foo">>)
        kept == {f \in declared : f \in DOMAIN body \/ DefaultOf(schema, f) # Absent}
                  \cup (IF stripUnknown THEN {} ELSE unknown)
    IN [error |-> IF abortEarly /\ failing # <<>> THEN <<failing[1]>> ELSE failing,
        value |-> [f \in kept |-> IF f \in DOMAIN body THEN Converted(body[f])
                                  ELSE DefaultOf(schema, f)]]

\* path parameters
HexChars == {"0", "1", "2", "3", "4", "5", "6", "7", "8", "9",
             "a", "b", "c", "d", "e", "f", "A", "B", "C", "D", "E", "F"}

\* a pattern without the anchors
ContainsObjectId(param) ==
    Len(param) >= 24 /\ \A i \in 1..24 : param[i] \in HexChars

\* id.match(/^[0-9a-fA-F]{24}$/)
IsObjectId(param) == Len(param) = 24 /\ \A i \in 1..Len(param) : param[i] \in HexChars

ParamInputs ==
    {[i \in 1..24 |-> "a"],
     [i \in 1..24 |-> IF i % 2 = 0 THEN "F" ELSE "9"],
     [i \in 1..23 |-> "a"],
     [i \in 1..25 |-> "a"],
     [i \in 1..24 |-> IF i = 24 THEN "g" ELSE "a"],
     [i \in 1..25 |-> IF i = 25 THEN "\n" ELSE "a"],
     <<"1">>}

\* the routes: controller, name of the path parameter ("": none), schema of
\* the payload ("": none)
Routes ==
    {[op |-> "getCategories", paramName |-> "", schema |-> "listQuery"],
     [op |-> "createCategory", paramName |-> "", schema |-> "categoryCreate"],
     [op |-> "getCategoryById", paramName |-> "id", schema |-> ""],
     [op |-> "updateCategory", paramName |-> "id", schema |-> "categoryUpdate"],
     [op |-> "deleteCategory", paramName |-> "id", schema |-> ""],
     [op |-> "toggleCategoryStatus", paramName |-> "id", schema |-> ""],
     [op |-> "getBooks", paramName |-> "", schema |-> "listQuery"],
     [op |-> "getBooksByCategory", paramName |-> "categoryId", schema |-> ""],
     [op |-> "createBook", paramName |-> "", schema |-> "bookCreate"],
     [op |-> "getBookById", paramName |-> "id", schema |-> ""],
     [op |-> "updateBook", paramName |-> "id", schema |-> "bookUpdate"],
     [op |-> "deleteBook", paramName |-> "id", schema |-> ""],
     [op |-> "updateBookStock", paramName |-> "id", schema |-> "stockOp"]}

RouteOf(op) == CHOOSE r \in Routes : r.op = op

\* the payloads a client may send to a schema: each declared key and the
\* undeclared key foo present or not
Payload(choice) == [k \in {f \in DOMAIN choice : choice[f] # Absent} |-> choice[k]]

Payloads(schema) ==
    CASE schema = "" -> {Payload([foo |-> Absent])}
      [] schema \in {"categoryCreate", "categoryUpdate"} ->
           {Payload(c) : c \in [name : Samples("name") \cup {Absent},
                                description : Samples("description") \cup {Absent},
                                isActive : Samples("isActive") \cup {Absent},
                                foo : Samples("foo") \cup {Absent}]}
      [] schema \in {"bookCreate", "bookUpdate"} ->
           {Payload(c) : c \in [isbn : Samples("isbn") \cup {Absent},
                                category : Samples("category") \cup {Absent},
                                stock : Samples("stock") \cup {Absent},
                                status : Samples("status") \cup {Absent},
                                foo : Samples("foo") \cup {Absent}]}
      [] schema = "stockOp" ->
           {Payload(c) : c \in [quantity : Samples("quantity") \cup {Absent},
                                operation : Samples("operation") \cup {Absent},
                                foo : Samples("foo") \cup {Absent}]}
      [] schema = "listQuery" ->
           {Payload(c) : c \in [page : Samples("page") \cup {Absent},
                                limit : Samples("limit") \cup {Absent},
                                status : Samples("status") \cup {Absent},
                                foo : Samples("foo") \cup {Absent}]}

\* the middleware that follows validateObjectId on the route
AfterObjectId(route) ==
    IF route.schema = "" THEN "handler"
    ELSE IF route.schema = "stockOp" THEN "stockValidation"
    ELSE "validate"

\* a request arrives on a route
Receive(p) ==
    /\ req[p].pc \in {"idle", "done", "handler"}
    /\ \E route \in Routes :
         \E param \in (IF route.paramName = "" THEN {<<>>} ELSE ParamInputs) :
           \E body \in Payloads(route.schema) :
              req' = [req EXCEPT ![p] =
                        [Idle EXCEPT !.op = route.op, !.param = param,
                                     !.raw = body, !.data = body,
                                     !.pc = IF route.paramName # "" THEN "validateObjectId"
                                            ELSE AfterObjectId(route)]]
    /\ UNCHANGED <<categories, books, nextCategory, nextBook, sent>>

\* validateObjectId(paramName); the 400 names the parameter
ValidateObjectId(p) ==
    /\ req[p].pc = "validateObjectId"
    /\ IF ~IsObjectId(req[p].param)
       THEN req' = [req EXCEPT ![p] =
                      [Response(p, 400, "El parametro proporcionado no es valido")
                          EXCEPT !.field = RouteOf(req[p].op).paramName]]
       ELSE req' = [req EXCEPT ![p].pc = AfterObjectId(RouteOf(req[p].op))]
    /\ UNCHANGED <<categories, books, nextCategory, nextBook, sent>>

\* a validate that does not put the validated value in place of the payload
ValidateWithoutAssign(p) ==
    /\ req[p].pc = "validate"
    /\ LET r == JoiValidate(RouteOf(req[p].op).schema, req[p].data, FALSE, TRUE)
       IN IF r.error # <<>>
          THEN req' = [req EXCEPT ![p] =
                         [Response(p, 400, "Error de validacion")
                             EXCEPT !.errors = r.error]]
          ELSE req' = [req EXCEPT ![p].pc = "handler"]
    /\ UNCHANGED <<categories, books, nextCategory, nextBook, sent>>

\* validate(schema, property): abortEarly false, stripUnknown true; on success
\* req[property] = value
Validate(p) ==
    /\ req[p].pc = "validate"
    /\ LET r == JoiValidate(RouteOf(req[p].op).schema, req[p].data, FALSE, TRUE)
       IN IF r.error # <<>>
          THEN req' = [req EXCEPT ![p] =
                         [Response(p, 400, "Error de validacion")
                             EXCEPT !.errors = r.error]]
          ELSE req' = [req EXCEPT ![p].data = r.value, ![p].pc = "handler"]
    /\ UNCHANGED <<categories, books, nextCategory, nextBook, sent>>

\* the middleware written in the stock route: schema.validate(req.body) with
\* Joi's defaults, the 400 carries error.details[0].message, and on success
\* req.body stays as it came
StockValidation(p) ==
    /\ req[p].pc = "stockValidation"
    /\ LET r == JoiValidate("stockOp", req[p].data, TRUE, FALSE)
       IN IF r.error # <<>>
          THEN req' = [req EXCEPT ![p] =
                         [Response(p, 400, "Error en los datos de stock")
                             EXCEPT !.errors = <<r.error[1]>>]]
          ELSE req' = [req EXCEPT ![p].pc = "handler"]
    /\ UNCHANGED <<categories, books, nextCategory, nextBook, sent>>

\* requests through the middleware, one at a time, up to the call of the
\* controller
NextRoutes == Receive(1) \/ ValidateObjectId(1) \/ Validate(1) \/ StockValidation(1)

----------------------------------------------------------------------------
(* The system *)

NoDocs == [x \in {} |-> NoDoc]

SeedCategory(name) == [name |-> name, isActive |-> TRUE]
SeedBook == [isbn |-> "9781451648539", category |-> 1, stock |-> 1, status |-> "disponible"]

\* a store that earlier requests have built: empty, or one or two active
\* categories, the first alone or with one book in it
Init ==
    /\ categories \in {NoDocs,
                       1 :> SeedCategory(<<"A", "b">>),
                       (1 :> SeedCategory(<<"A", "b">>)) @@ (2 :> SeedCategory(<<"B", "a">>))}
    /\ books \in {NoDocs, 1 :> SeedBook}
    /\ books # NoDocs => categories # NoDocs
    /\ nextCategory = Cardinality(DOMAIN categories)
    /\ nextBook = Cardinality(DOMAIN books)
    /\ req = [p \in Slots |-> Idle]
    /\ sent = 0

CreateCategorySteps(p) == CreateCategoryFindOne(p) \/ CreateCategoryCreate(p)

UpdateCategorySteps(p) ==
    UpdateCategoryFindById(p) \/ UpdateCategoryFindOne(p) \/ UpdateCategoryUpdate(p)

DeleteCategorySteps(p) ==
    DeleteCategoryFindById(p) \/ DeleteCategoryCount(p) \/ DeleteCategoryApply(p)

ToggleCategorySteps(p) == ToggleCategoryFindById(p) \/ ToggleCategorySave(p)

CreateBookSteps(p) ==
    CreateBookFindCategory(p) \/ CreateBookFindOne(p) \/ CreateBookCreate(p)

UpdateBookSteps(p) ==
    \/ UpdateBookFindById(p) \/ UpdateBookFindCategory(p)
    \/ UpdateBookFindOne(p) \/ UpdateBookUpdate(p)

DeleteBookSteps(p) == DeleteBookFindById(p) \/ DeleteBookDelete(p)

UpdateBookStockSteps(p) ==
    UpdateBookStockFindById(p) \/ UpdateBookStockSave(p) \/ UpdateBookStockReload(p)

\* every route, every payload, requests overlapping
Next ==
    \E p \in Slots :
        \/ PostCategory(p, CategoryCreateBodies) \/ CreateCategorySteps(p)
        \/ PutCategory(p, CategoryUpdateBodies) \/ UpdateCategorySteps(p)
        \/ DeleteCategory(p) \/ DeleteCategorySteps(p)
        \/ PatchCategoryToggleStatus(p) \/ ToggleCategorySteps(p)
        \/ PostBook(p, BookCreateBodies) \/ CreateBookSteps(p)
        \/ PutBook(p, BookUpdateBodies) \/ UpdateBookSteps(p)
        \/ DeleteBook(p) \/ DeleteBookSteps(p)
        \/ PatchBookStock(p, StockBodies) \/ UpdateBookStockSteps(p)

Spec == Init /\ [][Next]_vars

\* the category-name traffic: creates and renames
NameSteps(p) ==
    \/ PostCategory(p, CategoryCreateBodies) \/ CreateCategorySteps(p)
    \/ PutCategory(p, [name : NameInputs]) \/ UpdateCategorySteps(p)

InitNames == Init /\ books = NoDocs

\* ... requests overlapping
NextNames == \E p \in Slots : NameSteps(p)

SpecNames == InitNames /\ [][NextNames]_vars

\* ... one request at a time
NextNamesSeq == NameSteps(1)

SpecNamesSeq == InitNames /\ [][NextNamesSeq]_vars

\* the traffic on isbn: creates, isbn changes and deletes, requests overlapping
IsbnBookCreateBodies ==
    [isbn : IsbnInputs, category : {toString(1)}, stock : {1}, status : {"disponible"}]

InitIsbn == Init /\ DOMAIN categories = {1}

NextIsbn ==
    \E p \in Slots :
        \/ PostBook(p, IsbnBookCreateBodies) \/ CreateBookSteps(p)
        \/ PutBook(p, [isbn : IsbnInputs])
        \/ UpdateBookFindById(p) \/ UpdateBookFindOne(p) \/ UpdateBookUpdate(p)
        \/ DeleteBook(p) \/ DeleteBookSteps(p)

SpecIsbn == InitIsbn /\ [][NextIsbn]_vars

\* the traffic on the book -> category reference
RefBookCreateBodies ==
    [isbn : IsbnInputs, category : CategoryTexts, stock : {1}, status : {"disponible"}]

RefSteps(p) ==
    \/ PutCategory(p, [isActive : BOOLEAN])
    \/ UpdateCategoryFindById(p) \/ UpdateCategoryUpdate(p)
    \/ DeleteCategory(p) \/ DeleteCategorySteps(p)
    \/ PatchCategoryToggleStatus(p) \/ ToggleCategorySteps(p)
    \/ PostBook(p, RefBookCreateBodies) \/ CreateBookSteps(p)
    \/ PutBook(p, [category : CategoryTexts])
    \/ UpdateBookFindById(p) \/ UpdateBookFindCategory(p) \/ UpdateBookUpdate(p)
    \/ DeleteBook(p) \/ DeleteBookSteps(p)

\* ... requests overlapping
NextRefs == \E p \in Slots : RefSteps(p)

SpecRefs == Init /\ [][NextRefs]_vars

\* ... one request at a time
NextRefsSeq == RefSteps(1)

SpecRefsSeq == Init /\ [][NextRefsSeq]_vars

\* toggle-status calls one after the other, each answer kept in its slot
NextToggleSeq ==
    \E p \in Slots :
        \/ PatchCategoryToggleStatus(p) /\ \A q \in Slots : ~Running(q)
        \/ ToggleCategorySteps(p)

SpecToggleSeq == Init /\ [][NextToggleSeq]_vars

\* toggle-status calls alone, requests overlapping
NextToggle ==
    \E p \in Slots : PatchCategoryToggleStatus(p) \/ ToggleCategorySteps(p)

SpecToggle == Init /\ [][NextToggle]_vars

InitRoutes == Init /\ categories = NoDocs

SpecRoutes == InitRoutes /\ [][NextRoutes]_vars

\* the traffic on stock and status, requests overlapping
StockBookCreateBodies ==
    [isbn : {"123456789X"}, category : {toString(1)}, stock : StockInputs, status : StatusInputs]
StockBookUpdateBodies ==
    [stock : StockInputs] \cup [status : StatusInputs]
        \cup [stock : StockInputs, status : StatusInputs]

InitStock == Init /\ DOMAIN categories = {1}

NextStock ==
    \E p \in Slots :
        \/ PostBook(p, StockBookCreateBodies) \/ CreateBookSteps(p)
        \/ PutBook(p, StockBookUpdateBodies)
        \/ UpdateBookFindById(p) \/ UpdateBookUpdate(p)
        \/ PatchBookStock(p, StockBodies) \/ UpdateBookStockSteps(p)

SpecStock == InitStock /\ [][NextStock]_vars

\* ... one request at a time
NextStockSeq ==
    \/ PostBook(1, StockBookCreateBodies) \/ CreateBookSteps(1)
    \/ PutBook(1, StockBookUpdateBodies)
    \/ UpdateBookFindById(1) \/ UpdateBookUpdate(1)
    \/ PatchBookStock(1, StockBodies) \/ UpdateBookStockSteps(1)

SpecStockSeq == InitStock /\ [][NextStockSeq]_vars

\* the traffic on stock alone, requests overlapping
StockOpsCreateBodies ==
    [isbn : {"123456789X"}, category : {toString(1)}, stock : StockInputs, status : {"disponible"}]

NextStockOps ==
    \E p \in Slots :
        \/ PostBook(p, StockOpsCreateBodies) \/ CreateBookSteps(p)
        \/ PutBook(p, [stock : StockInputs])
        \/ UpdateBookFindById(p) \/ UpdateBookUpdate(p)
        \/ PatchBookStock(p, StockBodies) \/ UpdateBookStockSteps(p)

SpecStockOps == InitStock /\ [][NextStockOps]_vars

\* changes of stock of the stored books alone, requests overlapping
NextStockRace ==
    \E p \in Slots : PatchBookStock(p, StockBodies) \/ UpdateBookStockSteps(p)

SpecStockRace == InitStock /\ [][NextStockRace]_vars

\* updates of books against categories that are switched off and on, one
\* request at a time; the category of a book is written in either case
UpdateSeqBodies ==
    [isbn : IsbnInputs] \cup [category : {ObjectIdText(id, upper) : id \in CategoryIds,
                                                                  upper \in BOOLEAN}]

NextUpdateSeq ==
    \/ PutCategory(1, [isActive : BOOLEAN])
    \/ UpdateCategoryFindById(1) \/ UpdateCategoryUpdate(1)
    \/ PostBook(1, RefBookCreateBodies) \/ CreateBookSteps(1)
    \/ PutBook(1, UpdateSeqBodies) \/ UpdateBookSteps(1)

SpecUpdateSeq == Init /\ [][NextUpdateSeq]_vars

\* the listings of books and the changes of stock, requests overlapping
NextReads ==
    \E p \in Slots :
        \/ GetBooks(p) \/ GetBooksFind(p)
        \/ GetBooksByCategory(p)
        \/ GetBooksByCategoryFindById(p) \/ GetBooksByCategoryFind(p)
        \/ PatchBookStock(p, StockBodies) \/ UpdateBookStockSteps(p)

SpecReads == Init /\ [][NextReads]_vars

\* changes of stock overlapping the removal of the book
NextStockDelete ==
    \E p \in Slots :
        \/ PostBook(p, StockOpsCreateBodies) \/ CreateBookSteps(p)
        \/ DeleteBook(p) \/ DeleteBookSteps(p)
        \/ PatchBookStock(p, StockBodies) \/ UpdateBookStockSteps(p)

SpecStockDelete == InitStock /\ [][NextStockDelete]_vars

----------------------------------------------------------------------------
(* Properties *)

\* a request that has ended in slot p
Ended(p, op) == req[p].op = op /\ req[p].pc = "done"

\* C1: in every reachable state, whatever the interleaving of createBook and
\* updateBook requests, no two stored books have the same isbn
IsbnUnique ==
    \A a, b \in DOMAIN books : a # b => books[a].isbn # books[b].isbn

\* two creates of one isbn both passed the findOne check; the first stored its
\* book and the index stopped the second
IsbnRaceStoppedByIndex ==
    \E p, q \in Slots :
        /\ Ended(p, "createBook") /\ req[p].status = 201
        /\ Ended(q, "createBook") /\ req[q].status = 409 /\ req[q].field = "isbn"
        /\ req[p].id \in DOMAIN books

\* C2: in every reachable state, whatever the interleaving of createCategory
\* and updateCategory requests, no two stored categories have names that are
\* equal ignoring case
CategoryNamesUniqueIgnoringCase ==
    \A a, b \in DOMAIN categories :
        a # b => ~EqualIgnoringCase(categories[a].name, categories[b].name)

\* C9: a createCategory request whose name equals a stored category's name
\* ignoring case ends with 409 and adds no category
CreateCategoryRejectsDuplicateName ==
    [][\A p \in Slots :
          (/\ req[p].op = "createCategory" /\ Running(p)
           /\ \E c \in DOMAIN categories :
                  EqualIgnoringCase(categories[c].name, req[p].data.name)
           /\ req'[p].pc = "done")
          => (req'[p].status = 409 /\ categories' = categories)]_vars

\* C10: after every successful write of a category name, by createCategory or
\* by updateCategory, the stored name is the title-case form of the submitted
\* name
NameWrittenInTitleCase ==
    [][\A p \in Slots :
          (/\ req[p].op \in {"createCategory", "updateCategory"} /\ Running(p)
           /\ Has(req[p].data, "name")
           /\ req'[p].pc = "done" /\ req'[p].status \in {200, 201}
           /\ req'[p].id \in DOMAIN categories')
          => categories'[req'[p].id].name = TitleCase(req[p].data.name)]_vars

\* C3 as stated: in every reachable state every stored book's category
\* resolves to a category that exists and has isActive = TRUE
BookCategoriesExistAndActive ==
    \A b \in DOMAIN books :
        /\ books[b].category \in DOMAIN categories
        /\ categories[books[b].category].isActive

\* C3: with one request at a time, every stored book's category resolves to a
\* category that exists, and that category was active when the book's category
\* field was written; a later soft delete, toggle or update may deactivate it
BookCategoriesExistActiveWhenWritten ==
    /\ [](\A b \in DOMAIN books : books[b].category \in DOMAIN categories)
    /\ [][\A b \in DOMAIN books' :
             (b \notin DOMAIN books \/ books'[b].category # books[b].category)
             => /\ books'[b].category \in DOMAIN categories
                /\ categories[books'[b].category].isActive]_vars

\* a soft delete has left a book in a category that exists and is inactive
BookInDeactivatedCategory ==
    \E p \in Slots, b \in DOMAIN books :
        /\ Ended(p, "deleteCategory") /\ req[p].count > 0
        /\ books[b].category = req[p].id
        /\ req[p].id \in DOMAIN categories
        /\ ~categories[req[p].id].isActive

\* C5: whatever the interleaving of deleteCategory with createBook and
\* updateBook, no stored book has a category id that is absent from the
\* category collection
BookCategoriesStored ==
    \A b \in DOMAIN books : books[b].category \in DOMAIN categories

\* C4: in every reachable state a stored book with stock 0 does not have
\* status 'disponible', whichever of createBook, updateBook and the stock
\* operations produced the state
ZeroStockNotDisponible ==
    \A b \in DOMAIN books : books[b].stock = 0 => books[b].status # "disponible"

\* C6: a deleteCategory on a stored category that no book references removes
\* it, so that a fetch by its id gives 404; on a category that n >= 1 books
\* reference it leaves the category stored with isActive = FALSE, fetchable,
\* and reports n
DeleteCategoryOutcome ==
    [][\A p \in Slots :
          (/\ req[p].op = "deleteCategory" /\ Running(p)
           /\ req[p].id \in DOMAIN categories
           /\ req'[p].pc = "done")
          => LET id == req[p].id
                 n == Cardinality({b \in DOMAIN books : books[b].category = id})
             IN /\ req'[p].status = 200
                /\ IF n = 0
                   THEN /\ id \notin DOMAIN categories'
                        /\ GetCategoryByIdStatus(id)' = 404
                        /\ req'[p].msg = "Categoria eliminada exitosamente"
                   ELSE /\ id \in DOMAIN categories'
                        /\ ~categories'[id].isActive
                        /\ GetCategoryByIdStatus(id)' = 200
                        /\ req'[p].msg = "Categoria desactivada"
                        /\ req'[p].count = n]_vars

\* one category has been removed by a delete and another, with a book in it,
\* has been deactivated by a delete that reported the book
CategoryRemovedAndCategoryKept ==
    \E p \in Slots :
        /\ Ended(p, "deleteCategory") /\ req[p].status = 200 /\ req[p].count = 1
        /\ req[p].id \in DOMAIN categories /\ ~categories[req[p].id].isActive
        /\ \E c \in 1..nextCategory :
              c \notin DOMAIN categories /\ GetCategoryByIdStatus(c) = 404

\* C7: a createBook whose category id matches no stored category ends with
\* 400 'no existe', one whose category is stored with isActive = FALSE ends
\* with 400 'no esta activa', and neither stores a book
CreateBookRejectsBadCategory ==
    [][\A p \in Slots :
          (req[p].op = "createBook" /\ req[p].pc = "findCategory" /\ req'[p] # req[p])
          => LET c == CastObjectId(req[p].data.category)
             IN /\ c \notin DOMAIN categories
                     => /\ req'[p].pc = "done" /\ req'[p].status = 400
                        /\ req'[p].msg = "La categoria especificada no existe"
                        /\ books' = books
                /\ (c \in DOMAIN categories /\ ~categories[c].isActive)
                     => /\ req'[p].pc = "done" /\ req'[p].status = 400
                        /\ req'[p].msg = "La categoria especificada no esta activa"
                        /\ books' = books]_vars

\* a createBook into a deactivated category has ended with 400
CreateBookIntoInactiveCategoryRefused ==
    \E p \in Slots :
        /\ Ended(p, "createBook") /\ req[p].status = 400
        /\ req[p].msg = "La categoria especificada no esta activa"
        /\ \E c \in DOMAIN categories : ~categories[c].isActive

\* C8 as stated: a createBook whose isbn is the isbn of a stored book ends
\* with 409 and leaves the book collection unchanged
CreateBookDuplicateIsbnAlways409 ==
    [][\A p \in Slots :
          (/\ req[p].op = "createBook" /\ Running(p)
           /\ \E b \in DOMAIN books : books[b].isbn = req[p].data.isbn
           /\ req'[p].pc = "done")
          => (req'[p].status = 409 /\ books' = books)]_vars

\* C8: a createBook whose category is stored and active and whose isbn is the
\* isbn of a stored book ends with 409 'Ya existe un libro con este ISBN' and
\* leaves the book collection unchanged
CreateBookDuplicateIsbn409 ==
    [][\A p \in Slots :
          (/\ req[p].op = "createBook" /\ Running(p)
           /\ CastObjectId(req[p].data.category) \in DOMAIN categories
           /\ categories[CastObjectId(req[p].data.category)].isActive
           /\ \E b \in DOMAIN books : books[b].isbn = req[p].data.isbn
           /\ req'[p].pc = "done")
          => /\ req'[p].status = 409
             /\ req'[p].msg = "Ya existe un libro con este ISBN"
             /\ books' = books]_vars

\* the same book posted twice: the first ended with 201 and is stored, the
\* second ended with 409 at the findOne check
SameBookTwice201Then409 ==
    \E p, q \in Slots :
        /\ Ended(p, "createBook") /\ req[p].status = 201
        /\ req[p].id \in DOMAIN books
        /\ Ended(q, "createBook") /\ req[q].status = 409 /\ req[q].field = ""

\* a step of a stock operation of this kind in slot p, at this await, on a
\* stored book
StockStep(p, operation, pc) ==
    /\ req[p].op = "updateBookStock" /\ req[p].pc = pc
    /\ req[p].data.operation = operation /\ req[p].id \in DOMAIN books
    /\ req'[p] # req[p]

\* C11: a reduce by q on a book with stock s, when q > s, leaves the stock at
\* s and is answered with the failure 400 'Stock insuficiente'; otherwise it
\* sets the stock to s - q
ReduceOutcome ==
    [][\A p \in Slots :
          LET s == books[req[p].id].stock
              q == req[p].data.quantity.n
          IN /\ (StockStep(p, "reduce", "findById") /\ q > s)
                  => /\ books' = books
                     /\ req'[p].pc = "done" /\ req'[p].status = 400
                     /\ req'[p].msg = "Stock insuficiente"
             /\ (StockStep(p, "reduce", "findById") /\ q <= s)
                  => req'[p].pc = "save"
             /\ StockStep(p, "reduce", "save")
                  => books'[req[p].id].stock = s - q]_vars

\* C12: an add of a quantity with value q that the stock validator accepts
\* sets the stock to the stock before plus q
AddOutcome ==
    [][\A p \in Slots :
          StockStep(p, "add", "save")
          => books'[req[p].id].stock
                = books[req[p].id].stock + req[p].data.quantity.n]_vars

\* C13: in every reachable state, whatever the interleaving of createBook,
\* updateBook and the stock operations, every stored book has stock >= 0
StockNonNegative ==
    \A b \in DOMAIN books : books[b].stock >= 0

\* a reduce that would have taken the stock of an empty book below 0 has been
\* refused
ReduceBelowZeroRefused ==
    \E p \in Slots :
        /\ req[p].op = "updateBookStock" /\ req[p].err = 400
        /\ req[p].msg = "Stock insuficiente"
        /\ req[p].id \in DOMAIN books /\ books[req[p].id].stock = 0

\* C14: with toggle-status calls made one after the other, each call on a
\* stored category flips its isActive and touches no other category, and two
\* calls on the same category leave isActive at its original value
ToggleFlipsAndTwiceRestores ==
    /\ [][\A p \in Slots :
             (/\ req[p].op = "toggleCategoryStatus" /\ Running(p)
              /\ req[p].id \in DOMAIN categories
              /\ req'[p].pc = "done")
             => /\ req'[p].status = 200
                /\ categories' = [categories EXCEPT ![req[p].id].isActive = ~@]]_vars
    /\ [](\A p, q \in Slots :
             (/\ p # q /\ sent = 2
              /\ Ended(p, "toggleCategoryStatus") /\ req[p].status = 200
              /\ Ended(q, "toggleCategoryStatus") /\ req[q].status = 200
              /\ req[p].id = req[q].id)
             => /\ categories[req[p].id].isActive
                /\ req[p].msg # req[q].msg)

\* two toggle-status calls on one category have both been answered 200
ToggledTwice ==
    \E p, q \in Slots :
        /\ p # q /\ sent = 2 /\ req[p].id = req[q].id
        /\ Ended(p, "toggleCategoryStatus") /\ req[p].status = 200
        /\ Ended(q, "toggleCategoryStatus") /\ req[q].status = 200
        /\ req[q].msg = "Categoria activada exitosamente"

\* the declared fields of the schema whose rule the payload breaks
FieldFailures(schema, body) ==
    {f \in Range(SchemaFields(schema)) : FieldFails(schema, body, f)}

\* C15: for every schema, a payload that breaks the rules of two or more
\* fields is answered 400 with a list that holds every failing field
EveryFailureListed ==
    [][\A p \in Slots :
          (/\ req[p].pc \in {"validate", "stockValidation"}
           /\ req'[p] # req[p]
           /\ Cardinality(FieldFailures(RouteOf(req[p].op).schema, req[p].data)) >= 2)
          => /\ req'[p].pc = "done" /\ req'[p].status = 400
             /\ FieldFailures(RouteOf(req[p].op).schema, req[p].data)
                    \subseteq Range(req'[p].errors)]_vars

\* the schemas of the create and update payloads
WriteSchemas == {"categoryCreate", "categoryUpdate", "bookCreate", "bookUpdate"}

\* C16: the create or update payload handed to the controller holds no key
\* that its schema does not declare, and holds every declared key that the
\* client sent, with the converted value; an undeclared key alone does not
\* make the validator refuse the payload
UnknownKeysStripped ==
    /\ [](\A p \in Slots :
             (req[p].pc = "handler" /\ RouteOf(req[p].op).schema \in WriteSchemas)
             => LET declared == Range(SchemaFields(RouteOf(req[p].op).schema))
                IN /\ DOMAIN req[p].data \subseteq declared
                   /\ \A f \in declared \cap DOMAIN req[p].raw :
                         /\ f \in DOMAIN req[p].data
                         /\ req[p].data[f] = Converted(req[p].raw[f]))
    /\ [][\A p \in Slots :
             (/\ req[p].pc = "validate" /\ req'[p] # req[p]
              /\ FieldFailures(RouteOf(req[p].op).schema, req[p].raw) = {})
             => req'[p].pc = "handler"]_vars

\* a book-create payload sent with the key foo has reached the controller
PayloadWithFooHandedOn ==
    \E p \in Slots :
        /\ req[p].op = "createBook" /\ req[p].pc = "handler"
        /\ "foo" \in DOMAIN req[p].raw
        /\ "foo" \notin DOMAIN req[p].data

\* C17: validateObjectId lets a request pass iff its path parameter is
\* exactly 24 hexadecimal characters, and otherwise answers 400 naming the
\* parameter; no request with another parameter gets past it to a validator
\* or a controller
ObjectIdChecked ==
    /\ [][\A p \in Slots :
             (req[p].pc = "validateObjectId" /\ req'[p] # req[p])
             => IF Len(req[p].param) = 24 /\ Range(req[p].param) \subseteq HexChars
                THEN req'[p].pc = AfterObjectId(RouteOf(req[p].op))
                ELSE /\ req'[p].pc = "done" /\ req'[p].status = 400
                     /\ req'[p].field = RouteOf(req[p].op).paramName]_vars
    /\ [](\A p \in Slots :
             (/\ req[p].pc \in {"validate", "stockValidation", "handler"}
              /\ RouteOf(req[p].op).paramName # "")
             => Len(req[p].param) = 24 /\ Range(req[p].param) \subseteq HexChars)

\* a request for the books of a category with a malformed categoryId has
\* been answered 400 naming categoryId
BadCategoryIdRefused ==
    \E p \in Slots :
        /\ Ended(p, "getBooksByCategory") /\ req[p].status = 400
        /\ req[p].field = "categoryId"

\* C18: when the write of a createBook or an updateBook is refused by the
\* unique index on isbn, the request is answered 409 and the collection is
\* unchanged
IsbnIndexRejectionAnswered409 ==
    [][\A p \in Slots :
          (/\ \/ req[p].op = "createBook" /\ req[p].pc = "create"
              \/ req[p].op = "updateBook" /\ req[p].pc = "update"
                   /\ req[p].id \in DOMAIN books /\ Has(req[p].data, "isbn")
           /\ BookIsbnIndexRejects(req[p].data.isbn, req[p].id)
           /\ req'[p] # req[p])
          => /\ req'[p].pc = "done" /\ req'[p].status = 409
             /\ books' = books]_vars

\* C19: in production no failure answer carries the raw message of an error
\* of the persistence layer
NoRawMessageInProduction ==
    \A p \in Slots :
        (NODE_ENV = "production" /\ req[p].pc = "done" /\ req[p].status >= 400)
        => req[p].msg # DocumentNotFound

\* C20: a reduce that has read a sufficient stock is no longer compared with
\* the store: its save writes the stock computed from what it read and goes on
\* to the answer, also when the stock in the store has meanwhile fallen below
\* the quantity, so two overlapping reduces of one book both succeed
ReduceSavesWhatItRead ==
    [][\A p \in Slots :
          (/\ StockStep(p, "reduce", "save")
           /\ req[p].data.quantity.n >= 1
           /\ req[p].id \in DOMAIN books
           /\ req'[p] # req[p])
          => /\ req'[p].pc = "reload"
             /\ books'[req[p].id].stock = req[p].doc.stock]_vars

\* two reduces of 1 on one book have both been answered 200 and both report
\* the new stock 0: the book had 1 and 2 were taken
BothReducesSucceeded ==
    \E p, q \in Slots :
        /\ p # q /\ req[p].id = req[q].id
        /\ \A s \in {p, q} :
              /\ Ended(s, "updateBookStock") /\ req[s].status = 200
              /\ req[s].data.operation = "reduce" /\ req[s].data.quantity.n = 1
              /\ req[s].newStock = 0
        /\ sent = 2

\* C21: the save of a stock operation turns a 'disponible' book 'agotado'
\* exactly when it brings the stored stock to 0, turns an 'agotado' book
\* 'disponible' exactly when it brings the stored stock above 0, and changes
\* the status in no other way, so a 'descontinuado' book keeps its status
StatusFollowsStock ==
    [][\A p \in Slots :
          (\E operation \in OperationInputs : StockStep(p, operation, "save"))
          => LET before == books[req[p].id]
                 after == books'[req[p].id]
                 moved == after.stock # before.stock
             IN /\ before.status = "disponible"
                     => (after.status = "agotado" <=> (moved /\ after.stock = 0))
                /\ before.status = "agotado"
                     => (after.status = "disponible" <=> (moved /\ after.stock > 0))
                /\ after.status # before.status
                     => <<before.status, after.status>> \in
                           {<<"disponible", "agotado">>, <<"agotado", "disponible">>}]_vars

\* C22: a stock request whose id is well formed and names no stored book is
\* answered 404 also when its payload breaks the stock schema: the step that
\* examines the payload of such a request ends it with 404
StockLookupBeforePayload ==
    [][\A p \in Slots :
          (/\ req[p].op = "updateBookStock" /\ req[p].pc = "stockValidation"
           /\ IsObjectId(req[p].param) /\ books = NoDocs
           /\ JoiValidate("stockOp", req[p].data, TRUE, FALSE).error # <<>>
           /\ req'[p] # req[p])
          => req'[p].pc = "done" /\ req'[p].status = 404]_vars

\* C23: a createBook whose payload gives stock 0 with status 'disponible', or
\* a positive stock with status 'agotado', ends with the failure 400 and
\* stores nothing
ContradictoryStatusRefused ==
    [][\A p \in Slots :
          (/\ req[p].op = "createBook" /\ Running(p)
           /\ \/ req[p].data.stock = 0 /\ req[p].data.status = "disponible"
              \/ req[p].data.stock > 0 /\ req[p].data.status = "agotado"
           /\ req'[p].pc = "done")
          => req'[p].status = 400 /\ books' = books]_vars

\* C24: an updateBook of a stored book ends with 400 when its payload names a
\* category other than the book's that is missing or inactive, with 409 when
\* it names an isbn other than the book's that another book holds, in both
\* cases writing nothing; and it ends with neither 400 nor 409 when the
\* payload names the book's own category or the book's own isbn
UpdateBookChecksChangedFields ==
    [][\A p \in Slots :
          (/\ req[p].op = "updateBook" /\ Running(p)
           /\ req[p].id \in DOMAIN books
           /\ req'[p].pc = "done")
          => LET book == books[req[p].id]
                 data == req[p].data
                 c == CastObjectId(data.category)
             IN /\ (Has(data, "category") /\ c # book.category
                       /\ (c \notin DOMAIN categories \/ ~categories[c].isActive))
                     => req'[p].status = 400 /\ books' = books
                /\ (Has(data, "isbn") /\ data.isbn # book.isbn
                       /\ BookIsbnIndexRejects(data.isbn, req[p].id))
                     => req'[p].status = 409 /\ books' = books
                /\ (Has(data, "category") /\ c = book.category)
                     => req'[p].status \notin {400, 409}
                /\ (Has(data, "isbn") /\ data.isbn = book.isbn)
                     => req'[p].status \notin {400, 409}]_vars

\* C25: no step of a deleteCategory request changes the book collection:
\* the stored books and every field of each, the category reference
\* included, are the same after the step as before
DeleteCategoryKeepsBooks ==
    [][\A p \in Slots :
          (req[p].op = "deleteCategory" /\ Running(p) /\ req'[p] # req[p])
          => books' = books]_vars

\* a deleteCategory has switched off a category and a book still refers to it
BooksKeptAfterSoftDelete ==
    \E p \in Slots :
        /\ Ended(p, "deleteCategory") /\ req[p].status = 200 /\ req[p].count > 0
        /\ req[p].id \in DOMAIN categories /\ ~categories[req[p].id].isActive
        /\ \E b \in DOMAIN books : books[b].category = req[p].id

\* C26: the 200 answer of a stock operation carries, as newStock, the stock
\* this operation wrote, and the operation and quantity it was asked
NewStockIsOwnWrite ==
    [][\A p \in Slots :
          (/\ req[p].op = "updateBookStock" /\ req[p].pc = "reload"
           /\ req'[p].pc = "done" /\ req'[p].status = 200)
          => /\ req'[p].newStock = req[p].doc.stock
             /\ req'[p].data = req[p].data]_vars

\* C27: a request whose handler has ended has been answered by exactly one
\* call of res.json
AnsweredExactlyOnce ==
    \A p \in Slots :
        (req[p].op # "idle" /\ ~Running(p)) => req[p].sends = 1

\* C28: the save of an add whose quantity was sent as a number raises the
\* stored stock by that quantity, so that after any interleaving of adds the
\* stock is the initial stock plus the sum of the quantities
AddRaisesStoredStock ==
    [][\A p \in Slots :
          (StockStep(p, "add", "save") /\ ~req[p].data.quantity.str)
          => books'[req[p].id].stock = books[req[p].id].stock + req[p].data.quantity.n]_vars

\* C29: a createBook, updateBook, createCategory, updateCategory or stock
\* operation that is answered 400, 404 or 409 has written nothing: the step
\* that sends the failure leaves both collections as they are, and it is not
\* the step after the request's own save
FailureWritesNothing ==
    [][\A p \in Slots :
          (/\ req[p].op \in {"createBook", "updateBook", "createCategory",
                              "updateCategory", "updateBookStock"}
           /\ Running(p) /\ req'[p].pc = "done"
           /\ req'[p].status \in {400, 404, 409})
          => /\ books' = books /\ categories' = categories
             /\ req[p].pc # "reload"]_vars

\* C30: when toggle-status calls are the only writes and every answer sent so
\* far is still in its slot, a category that started active is active exactly
\* when the number of its calls answered 200 is even
TogglesKeepParity ==
    (/\ \A p \in Slots : ~Running(p)
     /\ Cardinality({p \in Slots : req[p].op # "idle"}) = sent)
    => \A id \in DOMAIN categories :
          LET n == Cardinality({p \in Slots :
                                  /\ Ended(p, "toggleCategoryStatus")
                                  /\ req[p].status = 200 /\ req[p].id = id})
          IN categories[id].isActive <=> (n % 2 = 0)

====
